---- MODULE Spec2Model ----
(***************************************************************************)
(* pycursor_agent: four adapters (Cursor, Claude, Codex, Gemini) that      *)
(* translate one agent()/create_chat() request into a backend argument     *)
(* vector, run it as a child process and normalise its output.             *)
(*                                                                         *)
(* Representation.  A Python str is a sequence of pieces; a piece is one   *)
(* whitespace character or a run of text that neither starts nor ends with *)
(* whitespace.  The empty str is << >>, concatenation is \o, and strip()   *)
(* removes whitespace pieces at both ends.  An Optional argument is << >>  *)
(* (None) or << v >>.  An argument vector is a sequence of strs.           *)
(***************************************************************************)
EXTENDS Integers, Sequences, FiniteSets, TLC

\* ---------------------------------------------------------------- bounds
MaxLines == 2    \* lines of a captured stdout

\* --------------------------------------------------------------- strings
Lit(x) == <<x>>
Empty == <<>>
None == <<>>
Some(v) == <<v>>
Val(o) == o[1]

Whitespace == {" ", "\n"}

\* Python truthiness of an Optional[str]: None and "" are false.
Truthy(o) == o # None /\ Val(o) # Empty

RECURSIVE lstrip(_)
lstrip(s) == IF s # <<>> /\ Head(s) \in Whitespace THEN lstrip(Tail(s)) ELSE s

RECURSIVE rstrip(_)
rstrip(s) ==
    IF s # <<>> /\ s[Len(s)] \in Whitespace THEN rstrip(SubSeq(s, 1, Len(s) - 1)) ELSE s

\* str.strip(): whitespace is removed at both ends.
strip(s) == lstrip(rstrip(s))

\* str.lower(), piece by piece.
LowerPiece(p) ==
    CASE p = "Claude-3-Opus" -> "claude-3-opus"
      [] p = "SONNET" -> "sonnet"
      [] p = "Opus" -> "opus"
      [] p = "Gemini-3-Flash" -> "gemini-3-flash"
      [] p = "PRO" -> "pro"
      [] p = "GPT-5" -> "gpt-5"
      [] OTHER -> p

lower(s) == [i \in 1..Len(s) |-> LowerPiece(s[i])]

\* ------------------------------------------------------- adapter config
Backends == {"cursor", "claude", "codex", "gemini"}

\* Default agent_path of each adapter's constructor.
DefaultAgentPath(b) ==
    CASE b = "cursor" -> Lit("cursor-agent")
      [] b = "claude" -> Lit("claude")
      [] b = "codex" -> Lit("codex")
      [] b = "gemini" -> Lit("gemini")

Getcwd == Lit("/cwd")

\* shutil.which(cmd) on a host where the adapter's executable is installed
\* or not: the path found on the search path, a path as it is, or None.
BinDir == "/usr/bin/"

which(installed, cmd) ==
    IF ~installed THEN None
    ELSE IF Head(cmd) = BinDir THEN Some(cmd)
    ELSE Some(<<BinDir>> \o cmd)

\* BaseAgentClient.__init__ and the adapters' __init__: the configuration
\* captured at construction; shutil.which(executable) or executable.
NewClient(b, workspace, approve_mcps, installed) ==
    [backend |-> b,
     executable |-> IF which(installed, DefaultAgentPath(b)) # None
                    THEN Val(which(installed, DefaultAgentPath(b)))
                    ELSE DefaultAgentPath(b),
     workspace |-> IF Truthy(workspace) THEN Val(workspace) ELSE Getcwd,
     auto_approve |-> approve_mcps,
     approve_mcps |-> approve_mcps]

\* ------------------------------------------------------------- requests
Modes == {"ask", "agent", "planner", "debug"}
OtherModes == {"review"}

Prompts == {Lit("2+2?"), Lit("fix it")}
ModelArgs == {None, Some(Empty), Some(Lit("sonnet")), Some(Lit("Claude-3-Opus")),
              Some(Lit("gemini-3-flash"))}
\* Model tokens for the alias lookup: table keys and native tokens in
\* lower, upper and mixed case, and tokens no table holds.
ModelTokens ==
    {"sonnet", "SONNET", "opus", "Opus", "claude-3-opus", "Claude-3-Opus", "flash", "pro",
     "PRO", "gemini-3-flash", "Gemini-3-Flash", "gpt-5", "GPT-5"}
ChatArgs == {None, Some(Empty), Some(Lit("c0"))}
ApproveArgs == {None, Some(TRUE), Some(FALSE)}

\* The arguments of one agent() call.
Request(prompt, model, mode, force, approve_mcps, chat_id, print_output) ==
    [prompt |-> prompt, model |-> model, mode |-> mode, force |-> force,
     approve_mcps |-> approve_mcps, chat_id |-> chat_id, print_output |-> print_output]

\* ------------------------------------------------------- mode injection
AskPrefix == <<"[MODE: ASK - Please answer the question without modifying any files]", " ">>
DebugPrefix == <<"[MODE: DEBUG - Focus on finding and fixing bugs in the code]", " ">>
PlannerPrefix ==
    <<"[MODE: PLANNER - Create a detailed plan for the following task but do not execute yet]", " ">>

final_prompt_swapped(mode, prompt) ==
    IF mode = "ask" THEN AskPrefix \o prompt
    ELSE IF mode = "debug" THEN PlannerPrefix \o prompt
    ELSE IF mode = "planner" THEN DebugPrefix \o prompt
    ELSE prompt

\* The if/elif chain every adapter's agent() runs on the prompt; a mode
\* that matches no branch leaves the prompt as it is.
final_prompt(mode, prompt) ==
    IF mode = "ask" THEN AskPrefix \o prompt
    ELSE IF mode = "debug" THEN DebugPrefix \o prompt
    ELSE IF mode = "planner" THEN PlannerPrefix \o prompt
    ELSE prompt

\* ------------------------------------------------------ model aliases
ClaudeAliasKeys ==
    {"sonnet", "opus", "claude-sonnet", "claude-opus", "claude-3-sonnet", "claude-3-opus"}

ClaudeAlias(k) ==
    CASE k \in {"sonnet", "claude-sonnet", "claude-3-sonnet"} -> "sonnet"
      [] k \in {"opus", "claude-opus", "claude-3-opus"} -> "opus"

GeminiAliasKeys ==
    {"gemini-3-flash", "gemini-3.0-flash", "gemini-3-pro", "gemini-3.0-pro",
     "gemini-2.0-flash", "gemini-2.0-pro", "gemini-1.5-flash", "gemini-1.5-pro"}

GeminiAlias(k) ==
    CASE k \in {"gemini-3-flash", "gemini-3.0-flash", "gemini-2.0-flash", "gemini-1.5-flash"}
           -> "flash"
      [] k \in {"gemini-3-pro", "gemini-3.0-pro", "gemini-2.0-pro", "gemini-1.5-pro"}
           -> "pro"

claude_convert_model_case_sensitive(model) ==
    IF model = Empty THEN model
    ELSE IF Len(model) = 1 /\ model[1] \in ClaudeAliasKeys
         THEN Lit(ClaudeAlias(model[1]))
         ELSE model

\* ClaudeCodeClient._convert_model: MODEL_ALIASES.get(model.lower(), model).
claude_convert_model(model) ==
    IF model = Empty THEN model
    ELSE IF Len(model) = 1 /\ lower(model)[1] \in ClaudeAliasKeys
         THEN Lit(ClaudeAlias(lower(model)[1]))
         ELSE model

\* GeminiClient._convert_model.
gemini_convert_model(model) ==
    IF model = Empty THEN model
    ELSE IF Len(model) = 1 /\ lower(model)[1] \in GeminiAliasKeys
         THEN Lit(GeminiAlias(lower(model)[1]))
         ELSE model

\* ------------------------------------------------- argument translation
should_approve_mcps_default_only(self, req) == self.approve_mcps

\* approve_mcps if approve_mcps is not None else self.approve_mcps
should_approve_mcps(self, req) ==
    IF req.approve_mcps # None THEN Val(req.approve_mcps) ELSE self.approve_mcps

Flag(cond, args) == IF cond THEN args ELSE <<>>

\* CursorAgentClient.agent, up to the call of _run_command.
cursor_agent_cmd(self, req) ==
    <<self.executable>>
    \o Flag(req.print_output, <<Lit("--print")>>)
    \o Flag(req.force, <<Lit("--force")>>)
    \o Flag(should_approve_mcps(self, req), <<Lit("--approve-mcps")>>)
    \o Flag(Truthy(req.model), <<Lit("--model"), Val(req.model)>>)
    \o Flag(Truthy(req.chat_id), <<Lit("--resume"), Val(req.chat_id)>>)
    \o Flag(self.workspace # Empty, <<Lit("--workspace"), self.workspace>>)
    \o <<Lit("agent"), final_prompt(req.mode, req.prompt)>>

claude_agent_cmd_resume_last(self, req) ==
    <<self.executable>>
    \o Flag(req.print_output, <<Lit("--print")>>)
    \o Flag(req.force, <<Lit("--dangerously-skip-permissions")>>)
    \o (IF should_approve_mcps(self, req)
        THEN <<Lit("--tools"), Lit("default")>>
        ELSE <<Lit("--tools"), Empty>>)
    \o Flag(Truthy(req.model), <<Lit("--model"), claude_convert_model(Val(req.model))>>)
    \o <<Lit("--"), final_prompt(req.mode, req.prompt)>>
    \o Flag(Truthy(req.chat_id), <<Lit("--resume"), Val(req.chat_id)>>)

\* ClaudeCodeClient.agent, up to subprocess.run.
claude_agent_cmd(self, req) ==
    <<self.executable>>
    \o Flag(req.print_output, <<Lit("--print")>>)
    \o Flag(req.force, <<Lit("--dangerously-skip-permissions")>>)
    \o (IF should_approve_mcps(self, req)
        THEN <<Lit("--tools"), Lit("default")>>
        ELSE <<Lit("--tools"), Empty>>)
    \o Flag(Truthy(req.model), <<Lit("--model"), claude_convert_model(Val(req.model))>>)
    \o Flag(Truthy(req.chat_id), <<Lit("--resume"), Val(req.chat_id)>>)
    \o <<Lit("--"), final_prompt(req.mode, req.prompt)>>

should_force_and(self, req) == req.force /\ should_approve_mcps(self, req)

\* force or (approve_mcps if approve_mcps is not None else self.approve_mcps)
should_force(self, req) == req.force \/ should_approve_mcps(self, req)

codex_agent_cmd_workspace_last(self, req) ==
    <<self.executable, Lit("exec"), Lit("--json")>>
    \o Flag(should_force(self, req), <<Lit("--dangerously-bypass-approvals-and-sandbox")>>)
    \o Flag(Truthy(req.model), <<Lit("--model"), Val(req.model)>>)
    \o (IF Truthy(req.chat_id)
        THEN <<Lit("resume"), Val(req.chat_id), final_prompt(req.mode, req.prompt)>>
        ELSE <<final_prompt(req.mode, req.prompt)>>)
    \o Flag(self.workspace # Empty, <<Lit("-C"), self.workspace>>)

codex_agent_cmd_no_id(self, req) ==
    <<self.executable, Lit("exec"), Lit("--json")>>
    \o Flag(should_force(self, req), <<Lit("--dangerously-bypass-approvals-and-sandbox")>>)
    \o Flag(Truthy(req.model), <<Lit("--model"), Val(req.model)>>)
    \o Flag(self.workspace # Empty, <<Lit("-C"), self.workspace>>)
    \o (IF Truthy(req.chat_id)
        THEN <<Lit("resume"), final_prompt(req.mode, req.prompt)>>
        ELSE <<final_prompt(req.mode, req.prompt)>>)

\* CodexClient.agent, up to subprocess.run.
codex_agent_cmd(self, req) ==
    <<self.executable, Lit("exec"), Lit("--json")>>
    \o Flag(should_force(self, req), <<Lit("--dangerously-bypass-approvals-and-sandbox")>>)
    \o Flag(Truthy(req.model), <<Lit("--model"), Val(req.model)>>)
    \o Flag(self.workspace # Empty, <<Lit("-C"), self.workspace>>)
    \o (IF Truthy(req.chat_id)
        THEN <<Lit("resume"), Val(req.chat_id), final_prompt(req.mode, req.prompt)>>
        ELSE <<final_prompt(req.mode, req.prompt)>>)

gemini_agent_cmd_raw_model(self, req) ==
    <<self.executable>>
    \o Flag(should_force(self, req), <<Lit("--yolo")>>)
    \o Flag(Truthy(req.model), <<Lit("--model"), Val(req.model)>>)
    \o Flag(Truthy(req.chat_id), <<Lit("--resume"), Val(req.chat_id)>>)
    \o <<final_prompt(req.mode, req.prompt)>>

\* GeminiClient.agent, up to subprocess.run.
gemini_agent_cmd(self, req) ==
    <<self.executable>>
    \o Flag(should_force(self, req), <<Lit("--yolo")>>)
    \o Flag(Truthy(req.model), <<Lit("--model"), gemini_convert_model(Val(req.model))>>)
    \o Flag(Truthy(req.chat_id), <<Lit("--resume"), Val(req.chat_id)>>)
    \o <<final_prompt(req.mode, req.prompt)>>

\* The argument vector agent() builds, by adapter.
agent_cmd(self, req) ==
    CASE self.backend = "cursor" -> cursor_agent_cmd(self, req)
      [] self.backend = "claude" -> claude_agent_cmd(self, req)
      [] self.backend = "codex" -> codex_agent_cmd(self, req)
      [] self.backend = "gemini" -> gemini_agent_cmd(self, req)

\* The argument vector create_chat() builds, by adapter.
create_chat_cmd(self) ==
    CASE self.backend = "cursor" -> <<self.executable, Lit("create-chat")>>
      [] self.backend = "claude" ->
           <<self.executable, Lit("--print"), Lit("--output-format"), Lit("json"),
             Lit("--dangerously-skip-permissions"), Lit("--"), <<"Say", " ", "OK">> >>
      [] self.backend = "codex" ->
           <<self.executable, Lit("exec"), Lit("--json"),
             Lit("--dangerously-bypass-approvals-and-sandbox"), <<"Say", " ", "OK">> >>
           \o Flag(self.workspace # Empty, <<Lit("-C"), self.workspace>>)
      [] self.backend = "gemini" ->
           <<self.executable, Lit("--output-format"), Lit("json"), Lit("--yolo"),
             <<"Say", " ", "OK">> >>

\* --------------------------------------------------- captured output
(***************************************************************************)
(* A captured stdout is the sequence of its lines (the text between        *)
(* newlines).  A line carries its characters, raw, and what json.loads     *)
(* makes of them, json: a decoded JSON value or Undecodable.  A JSON value *)
(* is a record: its type t, the content s of a string or number, and the   *)
(* <<key, value>> pairs o of an object.                                    *)
(***************************************************************************)
JStr(s) == [t |-> "str", s |-> s, o |-> <<>>]
JNum(d) == [t |-> "num", s |-> Lit(d), o |-> <<>>]
JNull == [t |-> "null", s |-> Empty, o |-> <<>>]
JList == [t |-> "list", s |-> Empty, o |-> <<>>]
JObj(pairs) == [t |-> "obj", s |-> Empty, o |-> pairs]
Undecodable == [t |-> "undecodable", s |-> Empty, o |-> <<>>]
NoValue == [t |-> "none", s |-> Empty, o |-> <<>>]

Line(raw, json) == [raw |-> raw, json |-> json]

\* Python truthiness of a decoded JSON value.
JTruthy(v) ==
    CASE v.t = "str" -> v.s # Empty
      [] v.t = "num" -> v.s # Lit("0")
      [] v.t = "obj" -> v.o # <<>>
      [] OTHER -> FALSE

HasKey(obj, k) == \E i \in 1..Len(obj.o) : obj.o[i][1] = k

\* dict.get(k, default)
Get(obj, k, default) ==
    IF HasKey(obj, k)
    THEN obj.o[CHOOSE i \in 1..Len(obj.o) : obj.o[i][1] = k][2]
    ELSE default

\* json.loads(line): ok is false where it raises JSONDecodeError.
json_loads(line) == [ok |-> line.json.t # "undecodable", v |-> line.json]

AgentMessage(text) ==
    JObj(<< <<"type", JStr(Lit("item.completed"))>>,
            <<"item", JObj(<< <<"type", JStr(Lit("agent_message"))>>, <<"text", text>> >>)>> >>)

ThreadStarted(id) ==
    JObj(<< <<"type", JStr(Lit("thread.started"))>>, <<"thread_id", id>> >>)

\* The lines the backends' stdout is made of.
BlankLine == Line(Empty, Undecodable)
PaddedTextLine == Line(<<" ", "hi", " ">>, Undecodable)
NumberLine == Line(Lit("4"), JNum("4"))
NullLine == Line(Lit("null"), JNull)
MessageLine == Line(Lit("{item.completed agent_message hi}"), AgentMessage(JStr(Lit("hi"))))
PaddedMessageLine ==
    Line(Lit("{item.completed agent_message _yo_}"), AgentMessage(JStr(<<" ", "yo", "\n">>)))
EmptyMessageLine == Line(Lit("{item.completed agent_message ''}"), AgentMessage(JStr(Empty)))
NumberMessageLine == Line(Lit("{item.completed agent_message 5}"), AgentMessage(JNum("5")))
ReasoningLine ==
    Line(Lit("{item.completed reasoning hmm}"),
         JObj(<< <<"type", JStr(Lit("item.completed"))>>,
                 <<"item", JObj(<< <<"type", JStr(Lit("reasoning"))>>,
                                   <<"text", JStr(Lit("hmm"))>> >>)>> >>))
NullItemLine ==
    Line(Lit("{item.completed item:null}"),
         JObj(<< <<"type", JStr(Lit("item.completed"))>>, <<"item", JNull>> >>))
StartedLine1 == Line(Lit("{thread.started t1}"), ThreadStarted(JStr(Lit("t1"))))
StartedLine2 == Line(Lit("{thread.started t2}"), ThreadStarted(JStr(Lit("t2"))))
StartedNoIdLine == Line(Lit("{thread.started ''}"), ThreadStarted(JStr(Empty)))
TurnLine ==
    Line(Lit("{turn.completed thread_id:bad}"),
         JObj(<< <<"type", JStr(Lit("turn.completed"))>>, <<"thread_id", JStr(Lit("bad"))>> >>))
StartedNumberLine == Line(Lit("{thread.started 7}"), ThreadStarted(JNum("7")))
SessionLine == Line(Lit("{session_id:s1}"), JObj(<< <<"session_id", JStr(Lit("s1"))>> >>))
NumberSessionLine == Line(Lit("{session_id:7}"), JObj(<< <<"session_id", JNum("7")>> >>))
NoSessionLine == Line(Lit("{result:OK}"), JObj(<< <<"result", JStr(Lit("OK"))>> >>))

Lines ==
    {BlankLine, PaddedTextLine, NumberLine, NullLine, MessageLine, PaddedMessageLine,
     EmptyMessageLine, NumberMessageLine, ReasoningLine, NullItemLine, StartedLine1,
     StartedLine2, StartedNoIdLine, StartedNumberLine, TurnLine, SessionLine,
     NumberSessionLine, NoSessionLine}

RECURSIVE SeqsUpTo(_, _)
SeqsUpTo(S, n) ==
    IF n = 0 THEN {<<>>}
    ELSE LET shorter == SeqsUpTo(S, n - 1)
         IN shorter \cup {Append(q, x) : q \in {r \in shorter : Len(r) = n - 1}, x \in S}

Stdouts == SeqsUpTo(Lines, MaxLines)

Stderrs ==
    {Empty, <<"boom", "\n">>,
     <<"SyntaxError: Invalid regular expression flags", "\n", "Node.js", " ", "v18", "\n">>,
     <<"SyntaxError: Invalid regular expression flags", " ", "in", " ", "Node.js", "\n">>}

\* What the child process does: its exit status and its two streams.
Response(status, stdout, stderr) == [status |-> status, stdout |-> stdout, stderr |-> stderr]

Responses ==
    {Response(0, out, Empty) : out \in Stdouts}
    \cup {Response(1, out, err) : out \in {<<>>, <<PaddedTextLine>>}, err \in Stderrs}

SampleResponses ==
    {Response(0, <<>>, Empty), Response(0, <<NumberLine>>, Empty),
     Response(0, <<StartedLine1>>, Empty), Response(0, <<SessionLine>>, Empty),
     Response(1, <<>>, <<"boom", "\n">>), Response(1, <<PaddedTextLine>>, Empty)}

\* The text of a stdout: its lines joined by newlines.
RECURSIVE join(_, _)
join(strs, sep) ==
    IF strs = <<>> THEN Empty
    ELSE IF Len(strs) = 1 THEN strs[1]
    ELSE strs[1] \o sep \o join(Tail(strs), sep)

Text(stdout) == join([i \in 1..Len(stdout) |-> stdout[i].raw], <<"\n">>)

IsBlank(raw) == \A i \in 1..Len(raw) : raw[i] \in Whitespace

RECURSIVE DropBlankHead(_)
DropBlankHead(ls) ==
    IF ls # <<>> /\ IsBlank(Head(ls).raw) THEN DropBlankHead(Tail(ls)) ELSE ls

RECURSIVE DropBlankLast(_)
DropBlankLast(ls) ==
    IF ls # <<>> /\ IsBlank(ls[Len(ls)].raw)
    THEN DropBlankLast(SubSeq(ls, 1, Len(ls) - 1))
    ELSE ls

\* stdout.strip().split('\n'): blank lines go at both ends, the first line
\* loses its leading and the last its trailing whitespace (which leaves
\* what json.loads makes of them as it was), and an empty text is one
\* empty line.
strip_split(stdout) ==
    LET kept == DropBlankLast(DropBlankHead(stdout))
    IN IF kept = <<>> THEN <<BlankLine>>
       ELSE [i \in 1..Len(kept) |->
               Line(IF i = 1 /\ i = Len(kept) THEN strip(kept[i].raw)
                    ELSE IF i = 1 THEN lstrip(kept[i].raw)
                    ELSE IF i = Len(kept) THEN rstrip(kept[i].raw)
                    ELSE kept[i].raw,
                    kept[i].json)]

\* json.loads(stdout.strip()): a text of several lines is no single
\* JSON document.
json_loads_stdout(stdout) ==
    LET ls == strip_split(stdout)
    IN IF Len(ls) = 1 THEN json_loads(ls[1]) ELSE [ok |-> FALSE, v |-> Undecodable]

\* ------------------------------------------------------------- outcomes
\* How a call ends: a returned content (agent) or id (create_chat), or a
\* raised exception with its message.
NoResult ==
    [op |-> "none", kind |-> "none", exc |-> "", msg |-> Empty, content |-> Empty,
     id |-> NoValue]

ReturnContent(op, c) ==
    [op |-> op, kind |-> "return", exc |-> "", msg |-> Empty, content |-> c, id |-> NoValue]

ReturnId(op, v) ==
    [op |-> op, kind |-> "return", exc |-> "", msg |-> Empty, content |-> Empty, id |-> v]

Raise(op, exc, msg) ==
    [op |-> op, kind |-> "raise", exc |-> exc, msg |-> msg, content |-> Empty, id |-> NoValue]

\* e.stderr or e.stdout
error_msg(resp) == IF resp.stderr # Empty THEN resp.stderr ELSE Text(resp.stdout)

Contains(s, piece) == \E i \in 1..Len(s) : s[i] = piece

\* error_msg.split('Node.js ')[-1]
AfterLastNodeJs(s) ==
    LET hits == {i \in 1..(Len(s) - 1) : s[i] = "Node.js" /\ s[i + 1] = " "}
    IN IF hits = {} THEN s
       ELSE LET last == CHOOSE i \in hits : \A j \in hits : j <= i
            IN SubSeq(s, last + 2, Len(s))

\* The except subprocess.CalledProcessError branch, by adapter and operation.
failed_only_stderr(self, op, resp) ==
    Raise(op, "RuntimeError", <<"Failed to create chat:", " ">> \o resp.stderr)

failed(self, op, resp) ==
    LET msg == IF self.backend = "cursor" /\ op = "create_chat"
               THEN resp.stderr
               ELSE error_msg(resp)
        head ==
            IF op = "create_chat" THEN <<"Failed to create chat:", " ">>
            ELSE CASE self.backend = "claude" -> <<"Claude Code execution failed:", " ">>
                   [] self.backend = "codex" -> <<"Codex execution failed:", " ">>
                   [] self.backend = "gemini" -> <<"Gemini execution failed:", " ">>
                   [] self.backend = "cursor" -> <<"Cursor Agent execution failed:", " ">>
    IN IF self.backend = "gemini"
          /\ Contains(msg, "SyntaxError: Invalid regular expression flags")
          /\ Contains(msg, "Node.js")
       THEN Raise(op, "RuntimeError",
                  <<"Gemini CLI requires Node.js 20 or higher. Current version:", " ">>
                  \o strip(AfterLastNodeJs(msg))
                  \o <<"\n", "Please upgrade Node.js to use GeminiClient.">>)
       ELSE Raise(op, "RuntimeError", head \o msg)

\* The loop of CodexClient.agent over the lines: the texts collected, or
\* the exception that ends it.
RECURSIVE codex_collect(_, _)
codex_collect(lines, response_text) ==
    IF lines = <<>> THEN [exc |-> "", texts |-> response_text]
    ELSE LET data == json_loads(Head(lines))
             rest == Tail(lines)
         IN IF ~data.ok THEN codex_collect(rest, response_text)
            ELSE IF data.v.t # "obj" THEN [exc |-> "AttributeError", texts |-> response_text]
            ELSE IF Get(data.v, "type", JNull) # JStr(Lit("item.completed"))
                 THEN codex_collect(rest, response_text)
            ELSE LET item == Get(data.v, "item", JObj(<<>>))
                 IN IF item.t # "obj"
                    THEN [exc |-> "AttributeError", texts |-> response_text]
                    ELSE IF Get(item, "type", JNull) # JStr(Lit("agent_message"))
                         THEN codex_collect(rest, response_text)
                    ELSE LET text == Get(item, "text", JStr(Empty))
                         IN IF JTruthy(text)
                            THEN codex_collect(rest, Append(response_text, text))
                            ELSE codex_collect(rest, response_text)

\* CodexClient.agent on exit status 0: "\n".join(response_text).strip().
codex_agent_output(stdout) ==
    LET got == codex_collect(strip_split(stdout), <<>>)
    IN IF got.exc # "" THEN Raise("agent", got.exc, Lit("object has no attribute 'get'"))
       ELSE IF \E i \in 1..Len(got.texts) : got.texts[i].t # "str"
            THEN Raise("agent", "TypeError", Lit("expected str instance"))
            ELSE ReturnContent("agent",
                     strip(join([i \in 1..Len(got.texts) |-> got.texts[i].s], <<"\n">>)))

\* The loop of CodexClient.create_chat over the lines.
RECURSIVE codex_find_thread(_)
codex_find_thread(lines) ==
    IF lines = <<>>
    THEN Raise("create_chat", "RuntimeError", Lit("Could not find thread_id in Codex output"))
    ELSE LET data == json_loads(Head(lines))
         IN IF ~data.ok THEN codex_find_thread(Tail(lines))
            ELSE IF data.v.t # "obj"
                 THEN Raise("create_chat", "AttributeError", Lit("object has no attribute 'get'"))
            ELSE IF Get(data.v, "type", JNull) = JStr(Lit("thread.started"))
                    /\ JTruthy(Get(data.v, "thread_id", JNull))
                 THEN ReturnId("create_chat", Get(data.v, "thread_id", JNull))
                 ELSE codex_find_thread(Tail(lines))

\* CodexClient.create_chat on exit status 0.
codex_create_chat_output(stdout) == codex_find_thread(strip_split(stdout))

\* ClaudeCodeClient.create_chat and GeminiClient.create_chat on exit status 0.
json_create_chat_output(self, stdout) ==
    LET output == json_loads_stdout(stdout)
        name == IF self.backend = "claude" THEN "Claude" ELSE "Gemini"
    IN IF ~output.ok
       THEN Raise("create_chat", "RuntimeError",
                  <<"Failed to parse", " ", name, " ", "output:", " ", "Expecting value">>)
       ELSE IF output.v.t # "obj"
            THEN Raise("create_chat", "AttributeError", Lit("object has no attribute 'get'"))
       ELSE IF ~JTruthy(Get(output.v, "session_id", JNull))
            THEN Raise("create_chat", "RuntimeError",
                       <<"No session_id found in", " ", name, " ", "output">>)
            ELSE ReturnId("create_chat", Get(output.v, "session_id", JNull))

\* CursorAgentClient.create_chat on exit status 0:
\* result.stdout.strip().split()[-1].
cursor_create_chat_output(stdout) ==
    LET s == strip(Text(stdout))
        gaps == {i \in 1..Len(s) : s[i] \in Whitespace}
        from == IF gaps = {} THEN 1 ELSE (CHOOSE i \in gaps : \A j \in gaps : j <= i) + 1
    IN IF s = <<>>
       THEN Raise("create_chat", "IndexError", Lit("list index out of range"))
       ELSE ReturnId("create_chat", JStr(SubSeq(s, from, Len(s))))

plain_agent_output_rstrip(stdout) == ReturnContent("agent", rstrip(Text(stdout)))

\* result.stdout.strip() of the Cursor, Claude and Gemini agent().
plain_agent_output(stdout) == ReturnContent("agent", strip(Text(stdout)))

\* What the call makes of the exited child: subprocess.run(check=True)
\* raises CalledProcessError on a non-zero status.
Normalise(self, op, resp) ==
    IF resp.status # 0 THEN failed(self, op, resp)
    ELSE IF op = "create_chat"
         THEN CASE self.backend = "codex" -> codex_create_chat_output(resp.stdout)
                [] self.backend = "cursor" -> cursor_create_chat_output(resp.stdout)
                [] OTHER -> json_create_chat_output(self, resp.stdout)
         ELSE IF self.backend = "codex" THEN codex_agent_output(resp.stdout)
              ELSE plain_agent_output(resp.stdout)

\* The methods BaseAgentClient and CursorAgentClient define.
CursorMethods ==
    {"__init__", "_check_executable", "agent", "create_chat", "ask", "debug", "plan", "run",
     "is_available", "__repr__", "agent_path"}

\* How the adapter runs the vector: the Cursor adapter looks up
\* self._run_command, the other three call subprocess.run.
CanRun(self) == self.backend # "cursor" \/ "_run_command" \in CursorMethods

check_executable_not_none(self, installed) == self.executable # Empty

\* BaseAgentClient._check_executable: shutil.which(self.executable) is not None.
check_executable(self, installed) == which(installed, self.executable) # None

\* A bool a call returns.
PyBool(b) == [t |-> "bool", s |-> IF b THEN Lit("True") ELSE Lit("False"), o |-> <<>>]

\* ---------------------------------------------------------------- state
VARIABLES
    installed, \* the host: whether the adapter's executable resolves on it
    cfg,       \* the adapter: backend and the configuration captured at construction
    pc,        \* "idle", "running" (blocked on the child) or "raising"
    frame,     \* the call in progress: operation, arguments, argument vector
    spawned,   \* child processes spawned by the call in progress or the last call
    resp,      \* what the backend executable did, or would have done, with the
               \* last call's vector: exit status, stdout, stderr
    result,    \* how the last call ended
    chat       \* the id the caller holds from its last create_chat()

vars == <<installed, cfg, pc, frame, spawned, resp, result, chat>>

NoRequest == Request(Empty, None, "agent", FALSE, None, None, FALSE)
NoFrame == [op |-> "none", req |-> NoRequest, argv |-> <<>>]
NoResponse == [status |-> -1, stdout |-> <<>>, stderr |-> Empty]

Init ==
    /\ installed \in BOOLEAN
    /\ cfg \in {NewClient(b, w, a, installed) :
                  b \in Backends, w \in {None, Some(Lit("/ws"))}, a \in BOOLEAN}
    /\ pc = "idle"
    /\ frame = NoFrame
    /\ spawned = 0
    /\ resp = NoResponse
    /\ result = NoResult
    /\ chat = None

Start_sticky(op, req, argv) ==
    /\ pc = "idle"
    /\ frame' = [op |-> op, req |-> req, argv |-> argv]
    /\ resp' = NoResponse
    /\ result' = NoResult
    /\ IF CanRun(cfg) /\ installed
       THEN pc' = "running" /\ spawned' = 1
       ELSE pc' = "raising" /\ spawned' = 0
    /\ cfg' = [cfg EXCEPT !.approve_mcps = should_approve_mcps(cfg, req)]
    /\ UNCHANGED <<installed, chat>>

\* A call starts: the vector is built and the child spawned, or the
\* lookup of the runner fails before any spawn, or subprocess.run finds
\* no executable to spawn.
Start(op, req, argv) ==
    /\ pc = "idle"
    /\ frame' = [op |-> op, req |-> req, argv |-> argv]
    /\ resp' = NoResponse
    /\ result' = NoResult
    /\ IF CanRun(cfg) /\ installed
       THEN pc' = "running" /\ spawned' = 1
       ELSE pc' = "raising" /\ spawned' = 0
    /\ UNCHANGED <<installed, cfg, chat>>

\* agent(prompt, model, mode, force, approve_mcps, chat_id, print_output)
Agent(Reqs) ==
    /\ pc = "idle"
    /\ \E req \in Reqs : Start("agent", req, agent_cmd(cfg, req))

Ask_forced(Ps, Ms) ==
    /\ pc = "idle"
    /\ \E p \in Ps, m \in Ms :
        LET r == Request(p, m, "ask", TRUE, None, None, TRUE)
        IN Start("ask", r, agent_cmd(cfg, r))

\* ask(prompt, model): agent(prompt, model=model, mode="ask", force=False)
Ask(Ps, Ms) ==
    /\ pc = "idle"
    /\ \E p \in Ps, m \in Ms :
        LET r == Request(p, m, "ask", FALSE, None, None, TRUE)
        IN Start("ask", r, agent_cmd(cfg, r))

\* debug(prompt, model): agent(prompt, model=model, mode="debug")
Debug(Ps, Ms) ==
    /\ pc = "idle"
    /\ \E p \in Ps, m \in Ms :
        LET r == Request(p, m, "debug", TRUE, None, None, TRUE)
        IN Start("debug", r, agent_cmd(cfg, r))

\* plan(prompt, model): agent(prompt, model=model, mode="planner")
Plan(Ps, Ms) ==
    /\ pc = "idle"
    /\ \E p \in Ps, m \in Ms :
        LET r == Request(p, m, "planner", TRUE, None, None, TRUE)
        IN Start("plan", r, agent_cmd(cfg, r))

\* run(prompt, model): agent(prompt, model=model)
Run(Ps, Ms) ==
    /\ pc = "idle"
    /\ \E p \in Ps, m \in Ms :
        LET r == Request(p, m, "agent", TRUE, None, None, TRUE)
        IN Start("run", r, agent_cmd(cfg, r))

\* create_chat()
CreateChat == Start("create_chat", NoRequest, create_chat_cmd(cfg))

OpKind(op) == IF op = "create_chat" THEN "create_chat" ELSE "agent"

\* The child exits and the blocked call normalises its output and ends.
ChildExit(Resps) ==
    /\ pc = "running"
    /\ \E r \in Resps :
        /\ resp' = r
        /\ result' = [Normalise(cfg, OpKind(frame.op), r) EXCEPT !.op = frame.op]
        /\ chat' = IF result'.kind = "return" /\ result'.id.t = "str"
                   THEN Some(result'.id.s)
                   ELSE chat
    /\ pc' = "idle"
    /\ frame' = NoFrame
    /\ UNCHANGED <<installed, cfg, spawned>>

\* self._run_command does not resolve: AttributeError leaves the call,
\* whatever the executable would have done.
NoRunner(Resps) ==
    /\ pc = "raising"
    /\ ~CanRun(cfg)
    /\ resp' \in (IF installed THEN Resps ELSE {NoResponse})
    /\ result' = Raise(frame.op, "AttributeError",
                       Lit("'CursorAgentClient' object has no attribute '_run_command'"))
    /\ pc' = "idle"
    /\ frame' = NoFrame
    /\ UNCHANGED <<installed, cfg, spawned, chat>>

\* subprocess.run finds no executable: FileNotFoundError, which no except
\* clause of the adapters catches, leaves the call.
NotFound ==
    /\ pc = "raising"
    /\ CanRun(cfg)
    /\ result' = Raise(frame.op, "FileNotFoundError",
                       <<"[Errno 2] No such file or directory:", " ">> \o cfg.executable)
    /\ pc' = "idle"
    /\ frame' = NoFrame
    /\ UNCHANGED <<installed, cfg, spawned, resp, chat>>

\* is_available: the property reads _check_executable() and runs nothing.
IsAvailable ==
    /\ pc = "idle"
    /\ result' = ReturnId("is_available", PyBool(check_executable(cfg, installed)))
    /\ resp' = NoResponse
    /\ spawned' = 0
    /\ UNCHANGED <<installed, cfg, pc, frame, chat>>

\* The arguments callers pass to agent(): every combination, and the id
\* the caller holds.
Requests ==
    {Request(p, m, mode, f, a, c, pr) :
        p \in Prompts, m \in ModelArgs, mode \in Modes \cup OtherModes, f \in BOOLEAN,
        a \in ApproveArgs, c \in ChatArgs \cup {chat}, pr \in BOOLEAN}

\* The arguments of the calls whose output is followed.
PlainRequests ==
    {Request(p, None, "agent", TRUE, None, c, TRUE) : p \in {Lit("2+2?")}, c \in {None, chat}}

\* Argument translation: every request, a sample of child behaviours.
Next ==
    \/ Agent(Requests)
    \/ Ask(Prompts, ModelArgs)
    \/ Debug(Prompts, ModelArgs)
    \/ Plan(Prompts, ModelArgs)
    \/ Run(Prompts, ModelArgs)
    \/ CreateChat
    \/ ChildExit(SampleResponses)
    \/ NoRunner(SampleResponses)
    \/ NotFound
    \/ IsAvailable

Spec == Init /\ [][Next]_vars

\* Output normalisation: a sample of requests, every child behaviour.
NextOut ==
    \/ Agent(PlainRequests)
    \/ Ask({Lit("2+2?")}, {None})
    \/ Debug({Lit("2+2?")}, {None})
    \/ Plan({Lit("2+2?")}, {None})
    \/ Run({Lit("2+2?")}, {None})
    \/ CreateChat
    \/ ChildExit(Responses)
    \/ NoRunner(Responses)
    \/ NotFound
    \/ IsAvailable

\* The requests that differ in the model alone.
ModelRequests ==
    {Request(Lit("2+2?"), m, "agent", TRUE, None, None, TRUE) :
        m \in {None, Some(Empty)} \cup {Some(Lit(tok)) : tok \in ModelTokens}}

\* Model resolution: every model token, a sample of child behaviours.
NextModels ==
    \/ Agent(ModelRequests)
    \/ ChildExit(SampleResponses)
    \/ NoRunner(SampleResponses)
    \/ NotFound
    \/ IsAvailable

\* Adapters constructed with the constructors' defaults.
InitOut == Init /\ cfg \in {NewClient(b, None, TRUE, installed) : b \in Backends}

SpecOut == InitOut /\ [][NextOut]_vars

SpecModels == Init /\ [][NextModels]_vars

\* ================================================================ claims
AgentOps == {"agent", "ask", "debug", "plan", "run"}

\* A call of agent(), directly or through a wrapper, has built its vector.
InAgentCall == pc \in {"running", "raising"} /\ frame.op \in AgentOps

EndsWith(s, tail) ==
    Len(s) >= Len(tail) /\ SubSeq(s, Len(s) - Len(tail) + 1, Len(s)) = tail

Occurrences(argv, tok) == {i \in 1..Len(argv) : argv[i] = tok}

\* The prefixes as the specification words them.
ClaimedPrefix(mode) ==
    CASE mode = "ask" ->
           <<"[MODE: ASK - Please answer the question without modifying any files]", " ">>
      [] mode = "debug" ->
           <<"[MODE: DEBUG - Focus on finding and fixing bugs in the code]", " ">>
      [] mode = "planner" ->
           <<"[MODE: PLANNER - Create a detailed plan for the following task but do not execute yet]", " ">>
      [] mode = "agent" -> <<>>

\* C1: on every adapter and for each of the four modes, the prompt element
\* of the vector agent() builds is the mode's prefix followed by the
\* caller's prompt, and every other element is what the same request
\* gives in each of the other modes.
C1_ModePrefixOnlyOnPrompt ==
    (InAgentCall /\ frame.req.mode \in Modes) =>
        LET argv == frame.argv
            n == Len(argv)
        IN /\ argv[n] = ClaimedPrefix(frame.req.mode) \o frame.req.prompt
           /\ \A m \in Modes :
                LET other == agent_cmd(cfg, [frame.req EXCEPT !.mode = m])
                IN /\ Len(other) = n
                   /\ \A i \in 1..(n - 1) : other[i] = argv[i]
                   /\ other[n] = ClaimedPrefix(m) \o frame.req.prompt

C1_Witness ==
    /\ InAgentCall
    /\ frame.op = "agent"
    /\ cfg.backend = "codex"
    /\ frame.req.mode = "planner"
    /\ Truthy(frame.req.chat_id)
    /\ Truthy(frame.req.model)

\* C2: on every adapter a call of agent() whose mode is none of ask, agent,
\* planner, debug is rejected with an error and spawns no child process.
C2_UnknownModeRejected ==
    (InAgentCall /\ frame.req.mode \notin Modes) => (pc = "raising" /\ spawned = 0)

\* The flags each adapter's agent() can emit, and those that take a value.
FlagTokens(b) ==
    CASE b = "cursor" ->
           {Lit("--print"), Lit("--force"), Lit("--approve-mcps"), Lit("--model"),
            Lit("--resume"), Lit("--workspace")}
      [] b = "claude" ->
           {Lit("--print"), Lit("--dangerously-skip-permissions"), Lit("--tools"),
            Lit("--model"), Lit("--resume")}
      [] b = "codex" ->
           {Lit("--json"), Lit("--dangerously-bypass-approvals-and-sandbox"), Lit("--model"),
            Lit("-C")}
      [] b = "gemini" -> {Lit("--yolo"), Lit("--model"), Lit("--resume")}

ValuedFlags == {Lit("--tools"), Lit("--model"), Lit("--resume"), Lit("--workspace"), Lit("-C")}

\* Where the subcommand or positional prompt starts: `agent <prompt>`,
\* `-- <prompt>`, `resume <chat_id> <prompt>` or the bare prompt.
PromptStart(b, req, argv) ==
    CASE b = "cursor" -> Len(argv) - 1
      [] b = "claude" -> Len(argv) - 1
      [] b = "codex" -> IF Truthy(req.chat_id) THEN Len(argv) - 2 ELSE Len(argv)
      [] b = "gemini" -> Len(argv)

\* Where the flags start: after the executable, and after `exec` for Codex.
FlagsStart(b) == IF b = "codex" THEN 3 ELSE 2

\* C3: on every adapter and for every combination of the arguments, every
\* flag and every flag's value sits at a lower index than the subcommand
\* or positional prompt, everything between the executable and that point
\* is a flag or a flag's value, and the prompt is the last element.
C3_FlagsBeforePrompt ==
    InAgentCall =>
        LET argv == frame.argv
            n == Len(argv)
            b == cfg.backend
            start == PromptStart(b, frame.req, argv)
            flagAt(i) == argv[i] \in FlagTokens(b)
            valueAt(i) == i > 1 /\ argv[i - 1] \in ValuedFlags /\ flagAt(i - 1)
        IN /\ start > 1
           /\ EndsWith(argv[n], frame.req.prompt)
           /\ b = "cursor" => argv[start] = Lit("agent")
           /\ b = "claude" => argv[start] = Lit("--")
           /\ (b = "codex" /\ Truthy(frame.req.chat_id)) =>
                  (argv[start] = Lit("resume") /\ argv[start + 1] = Val(frame.req.chat_id))
           /\ \A i \in FlagsStart(b)..(start - 1) : flagAt(i) \/ valueAt(i)
           /\ \A i \in 1..n :
                (i >= FlagsStart(b) /\ flagAt(i) /\ ~valueAt(i)) =>
                    (i < start /\ (argv[i] \in ValuedFlags => i + 1 < start))

C3_Witness ==
    /\ InAgentCall
    /\ cfg.backend = "codex"
    /\ Truthy(frame.req.chat_id)
    /\ Truthy(frame.req.model)
    /\ Len(frame.argv) = 11

\* Index of a token the vector holds once; 0 when it holds none.
IndexOf(argv, tok) ==
    IF Occurrences(argv, tok) = {} THEN 0 ELSE CHOOSE i \in Occurrences(argv, tok) : TRUE

\* C4: the Claude adapter's agent() emits --print (iff print_output),
\* --dangerously-skip-permissions (iff force), --tools and its value,
\* --model and the aliased model (iff a model is given), --resume and the id
\* (iff a chat id is given), the literal --, then the prefixed prompt, in
\* this order and nothing else; the request 2+2? / ask / sonnet with the
\* defaults gives exactly the documented vector, and exit status 0 with
\* stdout 4 gives content 4.  (An argument is given when it is neither
\* None nor the empty string.)
C4_ClaudeFixedOrder ==
    /\ (InAgentCall /\ cfg.backend = "claude") =>
          LET argv == frame.argv
              req == frame.req
              n == Len(argv)
              at(tok) == IndexOf(argv, tok)
              has(tok) == Occurrences(argv, tok) # {}
              order == <<Lit("--print"), Lit("--dangerously-skip-permissions"), Lit("--tools"),
                         Lit("--model"), Lit("--resume"), Lit("--")>>
              width(tok) == IF tok \in ValuedFlags THEN 2 ELSE 1
              present == {k \in 1..Len(order) : has(order[k])}
          IN /\ argv[1] = cfg.executable
             /\ \A k \in 1..Len(order) : Cardinality(Occurrences(argv, order[k])) <= 1
             /\ has(Lit("--print")) <=> req.print_output
             /\ has(Lit("--dangerously-skip-permissions")) <=> req.force
             /\ has(Lit("--tools")) /\ argv[at(Lit("--tools")) + 1] \in {Lit("default"), Empty}
             /\ has(Lit("--model")) <=> Truthy(req.model)
             /\ has(Lit("--model")) =>
                   argv[at(Lit("--model")) + 1] = claude_convert_model(Val(req.model))
             /\ has(Lit("--resume")) <=> Truthy(req.chat_id)
             /\ has(Lit("--resume")) => argv[at(Lit("--resume")) + 1] = Val(req.chat_id)
             /\ at(Lit("--")) = n - 1
             /\ argv[n] = ClaimedPrefix(IF req.mode \in Modes THEN req.mode ELSE "agent")
                            \o req.prompt
             /\ \A j, k \in present : j < k => at(order[j]) + width(order[j]) <= at(order[k])
             /\ \A k \in present :
                   \/ at(order[k]) = 2
                   \/ \E j \in present : j < k /\ at(order[j]) + width(order[j]) = at(order[k])
             /\ (/\ req = Request(Lit("2+2?"), Some(Lit("sonnet")), "ask", TRUE, None, None, TRUE)
                 /\ cfg.approve_mcps)
                => Tail(argv) =
                     <<Lit("--print"), Lit("--dangerously-skip-permissions"), Lit("--tools"),
                       Lit("default"), Lit("--model"), Lit("sonnet"), Lit("--"),
                       <<"[MODE: ASK - Please answer the question without modifying any files]",
                         " ", "2+2?">> >>
    /\ (/\ pc = "idle"
        /\ cfg.backend = "claude"
        /\ result.op \in AgentOps
        /\ resp = Response(0, <<NumberLine>>, Empty))
       => (result.kind = "return" /\ result.content = Lit("4"))

C4_Witness ==
    /\ InAgentCall
    /\ cfg.backend = "claude"
    /\ cfg.approve_mcps
    /\ frame.req = Request(Lit("2+2?"), Some(Lit("sonnet")), "ask", TRUE, None, None, TRUE)

C4_WitnessContent ==
    /\ pc = "idle"
    /\ cfg.backend = "claude"
    /\ result.op = "agent"
    /\ resp = Response(0, <<NumberLine>>, Empty)
    /\ result.content = Lit("4")

\* The token that introduces the chat id, by adapter.
ResumeToken(b) == IF b = "codex" THEN Lit("resume") ELSE Lit("--resume")

\* C5: on every adapter, a chat_id supplied to agent() (an argument that
\* is neither None nor the empty string) stands unchanged right after the
\* adapter's resume token, for Codex with the prompt right after the id;
\* without a chat_id the vector holds no resume token; and the id the
\* caller holds from create_chat() stands unchanged in the vector of every
\* later agent() call it is passed to.
C5_ChatIdVerbatim ==
    InAgentCall =>
        LET argv == frame.argv
            n == Len(argv)
            tok == ResumeToken(cfg.backend)
            hits == Occurrences(argv, tok)
        IN /\ Truthy(frame.req.chat_id) =>
                /\ Cardinality(hits) = 1
                /\ \A i \in hits :
                      /\ i + 1 <= n
                      /\ argv[i + 1] = Val(frame.req.chat_id)
                      /\ cfg.backend = "codex" =>
                            (i + 2 = n /\ EndsWith(argv[n], frame.req.prompt))
           /\ ~Truthy(frame.req.chat_id) => hits = {}
           /\ (chat # None /\ frame.req.chat_id = chat) =>
                \E i \in hits : Some(argv[i + 1]) = chat

C5_Witness ==
    /\ InAgentCall
    /\ cfg.backend = "codex"
    /\ chat = Some(Lit("t1"))
    /\ frame.req.chat_id = chat
    /\ frame.req.mode = "debug"

\* A call has ended and the backend's behaviour for it is on record.
Ended(ops) == pc = "idle" /\ result.op \in ops /\ resp.status >= 0

\* C6: on each of the four adapters, agent() against a child that exits
\* with status 0 and an empty stdout returns the empty string and raises
\* nothing.
C6_EmptyStdoutIsEmptyContent ==
    (Ended(AgentOps) /\ resp.status = 0 /\ resp.stdout = <<>>) =>
        (result.kind = "return" /\ result.content = Empty)

HasPart(s, part) ==
    \E i \in 1..(Len(s) + 1) :
        i + Len(part) - 1 <= Len(s) /\ SubSeq(s, i, i + Len(part) - 1) = part

\* The diagnostic text of a failed child: stderr, or stdout when stderr is
\* empty.
Diagnostic(r) == IF r.stderr # Empty THEN r.stderr ELSE Text(r.stdout)

\* C7: on every adapter, agent() and create_chat() end a child's non-zero
\* exit status with a raised error, never a returned value, and the error
\* carries the diagnostic text: the captured stderr when it is not empty,
\* the captured stdout otherwise.
C7_NonZeroExitRaisesDiagnostic ==
    (Ended(AgentOps \cup {"create_chat"}) /\ resp.status # 0) =>
        /\ result.kind = "raise"
        /\ HasPart(result.msg, Diagnostic(resp))

\* A line that decodes to an item.completed event whose item is an
\* agent_message with a non-empty text.
IsAgentMessage(line) ==
    /\ line.json.t = "obj"
    /\ Get(line.json, "type", JNull) = JStr(Lit("item.completed"))
    /\ Get(line.json, "item", JNull).t = "obj"
    /\ Get(Get(line.json, "item", JNull), "type", JNull) = JStr(Lit("agent_message"))
    /\ Get(Get(line.json, "item", JNull), "text", JNull).t = "str"
    /\ Get(Get(line.json, "item", JNull), "text", JNull).s # Empty

MessageTexts(stdout) ==
    LET msgs == SelectSeq(stdout, IsAgentMessage)
    IN [i \in 1..Len(msgs) |-> Get(Get(msgs[i].json, "item", JNull), "text", JNull).s]

\* C8: the Codex adapter's agent(), on exit status 0 and for every stdout,
\* returns the texts of the agent_message lines joined by newlines in
\* stream order and trimmed; no other line adds to the content or makes
\* the call fail.
C8_CodexContentFromMessages ==
    (Ended(AgentOps) /\ cfg.backend = "codex" /\ resp.status = 0) =>
        /\ result.kind = "return"
        /\ result.content = strip(join(MessageTexts(resp.stdout), <<"\n">>))

\* A line that decodes to a thread.started event carrying an identifier.
IsThreadStarted(line) ==
    /\ line.json.t = "obj"
    /\ Get(line.json, "type", JNull) = JStr(Lit("thread.started"))
    /\ JTruthy(Get(line.json, "thread_id", JNull))

\* C9: the Codex adapter's create_chat(), on exit status 0, returns the
\* identifier of the first thread.started event of the stream whatever
\* comes before or after it, never a field of another event, and raises
\* when the stream holds no such event.
C9_CodexFirstThreadStarted ==
    (Ended({"create_chat"}) /\ cfg.backend = "codex" /\ resp.status = 0) =>
        LET started == SelectSeq(resp.stdout, IsThreadStarted)
        IN IF started # <<>>
           THEN /\ result.kind = "return"
                /\ result.id = Get(started[1].json, "thread_id", JNull)
           ELSE result.kind = "raise"

\* C10: create_chat() of the Claude and Gemini adapters, on exit status 0,
\* returns the session_id of the decoded document when it is there and not
\* empty, ends with the layer's error when stdout does not decode and when
\* it decodes without a session_id, and ends in no other way.
C10_SingleJsonBootstrap ==
    (Ended({"create_chat"}) /\ cfg.backend \in {"claude", "gemini"} /\ resp.status = 0) =>
        LET doc == json_loads_stdout(resp.stdout)
            sid == IF doc.ok /\ doc.v.t = "obj" THEN Get(doc.v, "session_id", JNull) ELSE JNull
        IN /\ JTruthy(sid) => (result.kind = "return" /\ result.id = sid)
           /\ ~JTruthy(sid) => (result.kind = "raise" /\ result.exc = "RuntimeError")

\* Tokens that differ in letter case only.
CaseGroups ==
    {{"sonnet", "SONNET"}, {"opus", "Opus"}, {"claude-3-opus", "Claude-3-Opus"}, {"flash"},
     {"pro", "PRO"}, {"gemini-3-flash", "Gemini-3-Flash"}, {"gpt-5", "GPT-5"}}

SameButCase(a, b) == \E g \in CaseGroups : a \in g /\ b \in g

NativeTokens == {"sonnet", "opus", "flash", "pro"}

\* The value the vector carries after --model.
EmittedModel(argv) == argv[IndexOf(argv, Lit("--model")) + 1]

\* C11: the alias lookup of the Claude and Gemini adapters is
\* case-insensitive (tokens that differ in letter case only and match a
\* table key resolve to one backend token), idempotent (resolving a
\* resolved token changes nothing, and sonnet, opus, flash, pro resolve to
\* themselves), and returns a token that matches no key as it is, letter
\* case included.
C11_AliasResolution ==
    (InAgentCall /\ cfg.backend \in {"claude", "gemini"} /\ frame.req.model # None) =>
        LET tok == Val(frame.req.model)
            resolve(x) == IF cfg.backend = "claude" THEN claude_convert_model(x)
                          ELSE gemini_convert_model(x)
            keys == IF cfg.backend = "claude" THEN ClaudeAliasKeys ELSE GeminiAliasKeys
            matches(x) == \E k \in keys : SameButCase(x, k)
            out == IF Truthy(frame.req.model) THEN EmittedModel(frame.argv) ELSE resolve(tok)
        IN /\ out = resolve(tok)
           /\ resolve(out) = out
           /\ tok # Empty =>
                /\ matches(tok[1]) =>
                      \A u \in ModelTokens : SameButCase(tok[1], u) => resolve(Lit(u)) = out
                /\ tok[1] \in NativeTokens => out = tok
                /\ ~matches(tok[1]) => out = tok

C11_Witness ==
    /\ InAgentCall
    /\ cfg.backend = "claude"
    /\ frame.req.model = Some(Lit("Claude-3-Opus"))
    /\ EmittedModel(frame.argv) = Lit("opus")

\* What may follow a flag's value: another flag, the subcommand, or the
\* prompt that ends the vector.
AfterValue(b, argv, i) ==
    \/ i = Len(argv)
    \/ argv[i] \in FlagTokens(b) \cup {Lit("agent"), Lit("--"), Lit("resume")}

\* C12: on every adapter, agent() without a model (None or the empty
\* string) emits no --model; with a model it emits --model once, followed
\* by one value: the caller's token as it is for Cursor and Codex, the
\* alias-resolved token for Claude and Gemini.
C12_ModelFlag ==
    InAgentCall =>
        LET argv == frame.argv
            b == cfg.backend
            hits == Occurrences(argv, Lit("--model"))
            tok == Val(frame.req.model)
            expected == CASE b = "claude" -> claude_convert_model(tok)
                          [] b = "gemini" -> gemini_convert_model(tok)
                          [] OTHER -> tok
        IN /\ ~Truthy(frame.req.model) => hits = {}
           /\ Truthy(frame.req.model) =>
                /\ Cardinality(hits) = 1
                /\ \A i \in hits :
                      /\ i + 2 <= Len(argv)
                      /\ argv[i + 1] = expected
                      /\ AfterValue(b, argv, i + 2)
                /\ (b = "gemini" /\ tok = Lit("gemini-3-flash")) =>
                      EmittedModel(argv) = Lit("flash")
                /\ (b = "claude" /\ tok = Lit("Claude-3-Opus")) =>
                      EmittedModel(argv) = Lit("opus")
                /\ (b \in {"cursor", "codex"}) => EmittedModel(argv) = tok

C12_Witness ==
    /\ InAgentCall
    /\ cfg.backend = "gemini"
    /\ frame.req.model = Some(Lit("gemini-3-flash"))
    /\ Truthy(frame.req.chat_id)
    /\ Occurrences(frame.argv, Lit("flash")) # {}

\* The approval setting in effect for a call: the call's approve_mcps
\* when it is given, the instance default otherwise.
EffectiveApproval ==
    IF frame.req.approve_mcps = Some(TRUE) THEN TRUE
    ELSE IF frame.req.approve_mcps = Some(FALSE) THEN FALSE
    ELSE cfg.approve_mcps

BypassFlag(b) ==
    IF b = "codex" THEN Lit("--dangerously-bypass-approvals-and-sandbox") ELSE Lit("--yolo")

\* C13: the Codex and Gemini adapters emit their one bypass flag exactly
\* when force is true or the approval setting in effect is true.
C13_BypassIffForceOrApproval ==
    (InAgentCall /\ cfg.backend \in {"codex", "gemini"}) =>
        LET hits == Occurrences(frame.argv, BypassFlag(cfg.backend))
        IN /\ Cardinality(hits) <= 1
           /\ hits # {} <=> (frame.req.force \/ EffectiveApproval)

C13_Witness ==
    /\ InAgentCall
    /\ cfg.backend = "codex"
    /\ ~frame.req.force
    /\ ~cfg.approve_mcps
    /\ frame.req.approve_mcps = Some(TRUE)
    /\ Occurrences(frame.argv, BypassFlag("codex")) # {}

\* C14: Cursor emits --force iff force and --approve-mcps iff the approval
\* setting in effect is true; Claude emits --dangerously-skip-permissions
\* iff force and one --tools whose value is default when the approval
\* setting in effect is true and the empty string when it is false; a
\* call's approve_mcps=False overrides an instance default of True.
C14_ForceAndApprovalIndependent ==
    InAgentCall =>
        LET argv == frame.argv
            has(tok) == Occurrences(argv, tok) # {}
        IN /\ cfg.backend = "cursor" =>
                /\ has(Lit("--force")) <=> frame.req.force
                /\ has(Lit("--approve-mcps")) <=> EffectiveApproval
           /\ cfg.backend = "claude" =>
                /\ has(Lit("--dangerously-skip-permissions")) <=> frame.req.force
                /\ Cardinality(Occurrences(argv, Lit("--tools"))) = 1
                /\ argv[IndexOf(argv, Lit("--tools")) + 1] =
                      (IF EffectiveApproval THEN Lit("default") ELSE Empty)
           /\ (cfg.approve_mcps /\ frame.req.approve_mcps = Some(FALSE)) =>
                /\ ~has(Lit("--approve-mcps"))
                /\ ~has(Lit("default"))

C14_Witness ==
    /\ InAgentCall
    /\ cfg.backend = "claude"
    /\ cfg.approve_mcps
    /\ frame.req.approve_mcps = Some(FALSE)
    /\ frame.req.force
    /\ Occurrences(frame.argv, Empty) # {}

\* c is s without the whitespace at its end and without its first i
\* characters, all whitespace, for an i among leads; the rest of s is kept.
TrimmedFrom(s, c, leads) ==
    \E i \in leads : \E j \in i..Len(s) :
        /\ c = SubSeq(s, i + 1, j)
        /\ \A k \in 1..i : s[k] \in Whitespace
        /\ \A k \in (j + 1)..Len(s) : s[k] \in Whitespace
        /\ c # <<>> => c[Len(c)] \notin Whitespace
        /\ (c # <<>> /\ i > 0) => c[1] \notin Whitespace

PlainTextEnded ==
    Ended(AgentOps) /\ cfg.backend \in {"claude", "gemini"} /\ resp.status = 0

\* C15 as stated: agent() of the Claude and Gemini adapters, on exit status
\* 0, returns the captured stdout with its trailing whitespace removed;
\* leading whitespace and every interior character are kept.
C15_TrailingWhitespaceOnly ==
    PlainTextEnded =>
        /\ result.kind = "return"
        /\ TrimmedFrom(Text(resp.stdout), result.content, {0})

\* C15 as amended: agent() of the Claude and Gemini adapters, on exit
\* status 0, returns the captured stdout with the whitespace at both of
\* its ends removed; every interior character is kept.
C15_WhitespaceBothEnds ==
    PlainTextEnded =>
        /\ result.kind = "return"
        /\ TrimmedFrom(Text(resp.stdout), result.content, 0..Len(Text(resp.stdout)))
        /\ result.content # <<>> => result.content[1] \notin Whitespace

C15_Witness ==
    /\ PlainTextEnded
    /\ cfg.backend = "claude"
    /\ resp.stdout = <<PaddedTextLine, NumberLine>>
    /\ result.content = <<"hi", " ", "\n", "4">>

FailedCallEnded ==
    /\ Ended(AgentOps \cup {"create_chat"})
    /\ cfg.backend \in {"claude", "codex", "gemini"}
    /\ resp.status # 0

NodeJsFailure(diag) ==
    /\ HasPart(diag, <<"SyntaxError: Invalid regular expression flags">>)
    /\ HasPart(diag, <<"Node.js">>)

\* The text after the last "Node.js " of the diagnostic, or the whole
\* diagnostic when it holds none.
AfterNodeJs(diag) ==
    LET marks == {i \in 1..(Len(diag) - 1) : diag[i] = "Node.js" /\ diag[i + 1] = " "}
    IN IF marks = {} THEN diag
       ELSE SubSeq(diag, (CHOOSE i \in marks : \A j \in marks : j <= i) + 2, Len(diag))

WrapperMode(op) ==
    CASE op = "ask" -> "ask"
      [] op = "debug" -> "debug"
      [] op = "plan" -> "planner"

InWrapperCall == InAgentCall /\ frame.op \in {"ask", "debug", "plan"}

\* The vector of agent(p, model=m) for the prompt and model of the call
\* in progress: every other argument at its default.
DefaultAgentCmd ==
    agent_cmd(cfg, Request(frame.req.prompt, frame.req.model, "agent", TRUE, None, None, TRUE))

\* v and w are of one length and differ in their last element at most,
\* and v ends with the prompt under the wrapper's prefix.
SameButPrompt(v, w) ==
    /\ Len(v) = Len(w)
    /\ \A i \in 1..(Len(v) - 1) : v[i] = w[i]
    /\ v[Len(v)] = ClaimedPrefix(WrapperMode(frame.op)) \o frame.req.prompt

\* The result a wrapper's call ends with is the one agent() makes of the
\* child's behaviour.
WrapperResultIsAgents ==
    (Ended({"ask", "debug", "plan"}) /\ cfg.backend # "cursor") =>
        result = [Normalise(cfg, "agent", resp) EXCEPT !.op = result.op]

\* C17 as stated: on every adapter ask(p, m), debug(p, m) and plan(p, m)
\* give the child invocation and the result of agent(p, model=m) with the
\* mode fixed to ask, debug and planner: the vector differs from that of
\* the default agent(p, model=m) in the prompt element only.
C17_WrappersFixModeOnly ==
    /\ InWrapperCall => SameButPrompt(frame.argv, DefaultAgentCmd)
    /\ WrapperResultIsAgents

\* The flag force=True adds to the vector of the default agent() and
\* force=False takes away: Codex and Gemini keep their bypass flag when
\* the instance's approval default is true.
ForceOnlyFlags ==
    CASE cfg.backend = "cursor" -> {Lit("--force")}
      [] cfg.backend = "claude" -> {Lit("--dangerously-skip-permissions")}
      [] OTHER -> IF cfg.approve_mcps THEN {} ELSE {BypassFlag(cfg.backend)}

\* C17 as amended: debug(p, m) and plan(p, m) give the child invocation
\* and the result of agent(p, model=m) with the mode fixed, the vector
\* differing from the default agent() vector in the prompt element only;
\* ask(p, m) gives those of agent(p, model=m, mode="ask", force=False),
\* the vector differing from the default agent() vector in the prompt
\* element and in lacking the flag that force adds.
C17_WrappersFixModeAskUnforced ==
    /\ (InWrapperCall /\ frame.op # "ask") => SameButPrompt(frame.argv, DefaultAgentCmd)
    /\ (InWrapperCall /\ frame.op = "ask") =>
          SameButPrompt(frame.argv,
                        SelectSeq(DefaultAgentCmd, LAMBDA x : x \notin ForceOnlyFlags))
    /\ WrapperResultIsAgents

C17_Witness ==
    /\ InWrapperCall
    /\ frame.op = "ask"
    /\ cfg.backend = "codex"
    /\ ~cfg.approve_mcps
    /\ Truthy(frame.req.model)
    /\ Len(frame.argv) = Len(DefaultAgentCmd) - 1

CallOps == AgentOps \cup {"create_chat"}

\* A call with a valid request is in progress.
InValidCall ==
    /\ pc \in {"running", "raising"}
    /\ frame.op \in CallOps
    /\ frame.op \in AgentOps => frame.req.mode \in Modes

\* C18: on each of the four adapters, on a host where the executable is
\* installed, a call of agent() or create_chat() with a valid request
\* spawns one child process running the translated vector: the call is
\* never left, by a return or an error, without the child having been
\* spawned, and no call spawns a second child.
C18_OneSpawnPerCall ==
    /\ spawned <= 1
    /\ (installed /\ InValidCall) =>
          /\ pc = "running"
          /\ spawned = 1
          /\ frame.argv = (IF frame.op = "create_chat" THEN create_chat_cmd(cfg)
                            ELSE agent_cmd(cfg, frame.req))
    /\ (installed /\ pc = "idle" /\ result.op \in CallOps) => spawned = 1

\* C19: an adapter constructed with an executable name that does not
\* resolve on the host exists, with the name as given for its executable;
\* is_available is false for it, and its agent() and create_chat() calls
\* end with an error; when the name resolves, is_available is true.
C19_UnresolvedExecutableDeferred ==
    /\ ~installed =>
          /\ cfg.executable = DefaultAgentPath(cfg.backend)
          /\ result.op = "is_available" =>
                (result.kind = "return" /\ result.id = PyBool(FALSE))
          /\ (pc = "idle" /\ result.op \in CallOps) =>
                (result.kind = "raise" /\ spawned = 0)
    /\ installed =>
          (result.op = "is_available" => (result.kind = "return" /\ result.id = PyBool(TRUE)))

C19_Witness ==
    /\ ~installed
    /\ cfg.backend = "gemini"
    /\ cfg.executable = Lit("gemini")
    /\ result.op = "is_available"
    /\ result.id = PyBool(FALSE)

C19_WitnessCallFails ==
    /\ ~installed
    /\ cfg.backend = "claude"
    /\ pc = "idle"
    /\ result.op = "create_chat"
    /\ result.exc = "FileNotFoundError"

\* The approval flag each adapter's vector shows for an approval setting
\* that is true (for Codex and Gemini together with force).
ApprovalShown(argv) ==
    CASE cfg.backend = "cursor" -> Occurrences(argv, Lit("--approve-mcps")) # {}
      [] cfg.backend = "claude" -> Occurrences(argv, Lit("default")) # {}
      [] OTHER -> Occurrences(argv, BypassFlag(cfg.backend)) # {}

\* C20: no agent(), ask(), debug(), plan(), run() or create_chat() call,
\* succeeding or failing, changes the adapter's configuration (executable,
\* workspace, default approve_mcps); an id the caller holds from
\* create_chat() is not remembered by the adapter, so a call without
\* chat_id carries no resume token, and a call without approve_mcps uses
\* the default chosen at construction.
C20_ConfigurationFrozen ==
    /\ [][cfg' = cfg]_vars
    /\ [](InAgentCall =>
            /\ ~Truthy(frame.req.chat_id) =>
                  Occurrences(frame.argv, ResumeToken(cfg.backend)) = {}
            /\ (frame.req.approve_mcps = None /\ ~frame.req.force) =>
                  (ApprovalShown(frame.argv) <=> cfg.approve_mcps)
            /\ frame.argv[1] = cfg.executable)

C20_Witness ==
    /\ InAgentCall
    /\ chat # None
    /\ frame.req.chat_id = None
    /\ frame.req.approve_mcps = None
    /\ ~frame.req.force
    /\ ~cfg.approve_mcps
    /\ Occurrences(frame.argv, ResumeToken(cfg.backend)) = {}

\* A create_chat() call is in progress: its bootstrap vector is built.
InCreateChat == pc \in {"running", "raising"} /\ frame.op = "create_chat"

\* The bootstrap prompt of the Claude, Codex and Gemini adapters.
BootstrapPrompt == <<"Say", " ", "OK">>

\* The flags a bootstrap vector is made of.
BootstrapFlags ==
    {Lit("--print"), Lit("--output-format"), Lit("--json"), Lit("--yolo"), Lit("-C"),
     Lit("--dangerously-skip-permissions"), Lit("--dangerously-bypass-approvals-and-sandbox")}

\* C21: the vector create_chat() builds keeps every flag before the
\* positional prompt: on the Codex adapter `-C` sits at a lower index than
\* `Say OK`, and on the Claude and Gemini adapters every flag precedes the
\* prompt, which is the last element.
C21_BootstrapFlagsBeforePrompt ==
    (InCreateChat /\ cfg.backend \in {"claude", "codex", "gemini"}) =>
        LET argv == frame.argv
            n == Len(argv)
            prompts == Occurrences(argv, BootstrapPrompt)
        IN /\ Cardinality(prompts) = 1
           /\ \A p \in prompts :
                /\ cfg.backend = "codex" =>
                     \A i \in Occurrences(argv, Lit("-C")) : i < p
                /\ cfg.backend \in {"claude", "gemini"} =>
                     (p = n /\ \A i \in 1..n : argv[i] \in BootstrapFlags => i < p)

\* The permission-bypass flags of the four backends.
BypassFlags ==
    {Lit("--force"), Lit("--dangerously-skip-permissions"),
     Lit("--dangerously-bypass-approvals-and-sandbox"), Lit("--yolo")}

HasBypassFlag(argv) == \E i \in 1..Len(argv) : argv[i] \in BypassFlags

\* C22: on every adapter and for every construction-time approve_mcps
\* setting, the vector of an ask() call contains none of --force,
\* --dangerously-skip-permissions,
\* --dangerously-bypass-approvals-and-sandbox and --yolo.
C22_AskNeverBypasses ==
    (InAgentCall /\ frame.op = "ask") => ~HasBypassFlag(frame.argv)

\* C23: on a Claude, Codex or Gemini adapter constructed with
\* approve_mcps=False, the vector create_chat() builds contains no
\* permission-bypass flag.
C23_BootstrapHonoursApproval ==
    (InCreateChat /\ cfg.backend \in {"claude", "codex", "gemini"} /\ ~cfg.approve_mcps) =>
        ~HasBypassFlag(frame.argv)

\* C24: on every adapter, create_chat() against a child that exited,
\* whatever its stdout and exit status, either raises or returns a string
\* that is not empty (never an empty string, a null or another value), and
\* agent() called with the returned id builds a vector that holds the
\* adapter's resume token.
C24_BootstrapIdNonEmptyString ==
    Ended({"create_chat"}) =>
        \/ result.kind = "raise"
        \/ /\ result.kind = "return"
           /\ result.id.t = "str"
           /\ result.id.s # Empty
           /\ \A p \in Prompts :
                Occurrences(agent_cmd(cfg, Request(p, None, "agent", TRUE, None,
                                                   Some(result.id.s), TRUE)),
                            ResumeToken(cfg.backend)) # {}
====
